---- MODULE Spec2Model ----
(***************************************************************************)
(* A model of pytorch_fast_elmo/utils.py: the character-ID codec, the      *)
(* batch assemblers, length inference, mask generation, sort-by-length and *)
(* the vocabulary-cache pipeline.                                          *)
(*                                                                         *)
(* Python lists and tensors are sequences; a Python index i is position    *)
(* i + 1 of the sequence (see At).  A tensor is a record                   *)
(* [shape |-> <<d1, ..., dk>>, data |-> nested sequences].                 *)
(* A str is the sequence of its code points.                               *)
(***************************************************************************)
EXTENDS Integers, Sequences, FiniteSets

VARIABLES
    pc,                        \* position of the call under way
    call,                      \* the entry point being exercised
    raised,                    \* "none", or the name of the exception that ended the call
    word,                      \* word_to_char_ids: word
    char_ids,                  \* make_padded_char_ids: char_ids
    max_word_length,           \* make_padded_char_ids: max_word_length
    padded,                    \* make_padded_char_ids: the returned row
    batch,                     \* batch_to_char_ids / batch_to_word_ids / sort_batch_by_length: batch
    max_characters_per_token,  \* batch_to_char_ids / cache_char_cnn_vocab: max_characters_per_token
    tensor,                    \* the tensor a batch assembler returned
    inputs,                    \* get_lengths_of_zero_padded_batch: inputs
    lengths,                   \* lengths (returned by length inference, or given to the mask)
    batch_size,                \* generate_mask_from_lengths / cache_char_cnn_vocab: batch_size
    max_timesteps,             \* generate_mask_from_lengths: max_timesteps
    mask,                      \* generate_mask_from_lengths: the returned mask
    sorted_batch,              \* sort_batch_by_length: sorted_batch
    permutation_index,         \* sort_batch_by_length: permutation_index
    restoration_index,         \* sort_batch_by_length: restoration_index
    vocab_txt,                 \* cache_char_cnn_vocab: the vocabulary file
    vocab,                     \* cache_char_cnn_vocab: vocab
    cached,                    \* cache_char_cnn_vocab: cached
    batch_start,               \* cache_char_cnn_vocab: batch_start
    embedding_weight,          \* cache_char_cnn_vocab: embedding_weight
    hdf5_out                   \* cache_char_cnn_vocab: the output file

vars == <<pc, call, raised, word, char_ids, max_word_length, padded, batch,
          max_characters_per_token, tensor, inputs, lengths, batch_size,
          max_timesteps, mask, sorted_batch, permutation_index,
          restoration_index, vocab_txt, vocab, cached, batch_start,
          embedding_weight, hdf5_out>>

codecVars == <<word, char_ids, max_word_length, padded>>
batchVars == <<batch, max_characters_per_token, tensor>>
lengthVars == <<inputs, lengths>>
maskVars == <<batch_size, max_timesteps, mask>>
sortVars == <<sorted_batch, permutation_index, restoration_index>>
cacheVars == <<vocab_txt, vocab, cached, batch_start, embedding_weight, hdf5_out>>

(***************************************************************************)
(* Bounds of the model.                                                    *)
(***************************************************************************)
MaxWordChars == 2      \* code points per word
MaxCharIds == 6        \* length of a char_ids sequence given directly
MaxWidth == 5          \* max_word_length
MaxBatch == 2          \* sequences per batch of words
MaxSeq == 3            \* words per sequence
MaxChars == 3          \* max_characters_per_token
MaxRows == 2           \* rows of a tensor given to length inference
MaxSteps == 2          \* timesteps of a tensor given to length inference
MaxInner == 2          \* innermost size of a 3D tensor given to length inference
MaskMaxBatch == 2      \* batch_size of generate_mask_from_lengths
MaskMaxSteps == 4      \* max_timesteps of generate_mask_from_lengths
SortMaxBatch == 3      \* rows of a batch given to sort_batch_by_length
SortMaxSteps == 2      \* timesteps of a batch given to sort_batch_by_length
MaxVocabLines == 4     \* lines of the vocabulary file
MaxChunk == 3          \* batch_size of cache_char_cnn_vocab

(***************************************************************************)
(* Helpers.                                                                *)
(***************************************************************************)
At(seq, i) == seq[i + 1]

Min(a, b) == IF a <= b THEN a ELSE b

Max(a, b) == IF a >= b THEN a ELSE b

RECURSIVE SumSeq(_)
SumSeq(s) == IF s = <<>> THEN 0 ELSE Head(s) + SumSeq(Tail(s))

RECURSIVE Flatten(_)
Flatten(ss) == IF ss = <<>> THEN <<>> ELSE Head(ss) \o Flatten(Tail(ss))

NoTensor == [shape |-> <<>>, data |-> <<>>]

(***************************************************************************)
(* ElmoCharacterIdsConst.                                                  *)
(***************************************************************************)
BEGINNING_OF_SENTENCE_CHARACTER == 256
END_OF_SENTENCE_CHARACTER == 257
BEGINNING_OF_WORD_CHARACTER == 258
END_OF_WORD_CHARACTER == 259
PADDING_CHARACTER == 260

(***************************************************************************)
(* str.encode('utf-8', 'ignore'): the bytes of each code point; a lone     *)
(* surrogate cannot be encoded and the 'ignore' handler drops it.          *)
(***************************************************************************)
Utf8OfCodePoint(cp) ==
    IF cp < 128 THEN <<cp>>
    ELSE IF cp < 2048 THEN <<192 + (cp \div 64), 128 + (cp % 64)>>
    ELSE IF cp >= 55296 /\ cp <= 57343 THEN <<>>
    ELSE IF cp < 65536
         THEN <<224 + (cp \div 4096), 128 + ((cp \div 64) % 64), 128 + (cp % 64)>>
    ELSE <<240 + (cp \div 262144), 128 + ((cp \div 4096) % 64),
           128 + ((cp \div 64) % 64), 128 + (cp % 64)>>

RECURSIVE Utf8Encode(_)
Utf8Encode(w) ==
    IF w = <<>> THEN <<>> ELSE Utf8OfCodePoint(Head(w)) \o Utf8Encode(Tail(w))

\* A mutant of word_to_char_ids: the + 1 is forgotten.
word_to_char_ids_unshifted(w) == Utf8Encode(w)

\* word_to_char_ids: + 1 is applied to every byte.
word_to_char_ids(w) ==
    LET bytes == Utf8Encode(w) IN [j \in 1..Len(bytes) |-> bytes[j] + 1]

(***************************************************************************)
(* make_padded_char_ids, with its default marker arguments.  FillChars is  *)
(* the loop over char_ids: it stops at the first idx >= max_word_length.   *)
(***************************************************************************)
RECURSIVE FillChars(_, _, _, _)
FillChars(row, idx, ids, width) ==
    IF ids = <<>> \/ idx >= width
    THEN [padded |-> row, idx |-> idx]
    ELSE FillChars([row EXCEPT ![idx + 1] = Head(ids)], idx + 1, Tail(ids), width)

\* A mutant of make_padded_char_ids: idx is not clamped to the last slot, so an
\* overlong word gets no end-of-word marker.
make_padded_char_ids_unclamped(ids, width) ==
    LET padded0 == [i \in 1..width |-> PADDING_CHARACTER + 1]
        padded1 == [padded0 EXCEPT ![1] = BEGINNING_OF_WORD_CHARACTER + 1]
        filled == FillChars(padded1, 1, ids, width)
    IN  IF filled.idx < width
        THEN [filled.padded EXCEPT ![filled.idx + 1] = END_OF_WORD_CHARACTER + 1]
        ELSE filled.padded

make_padded_char_ids(ids, width) ==
    LET padded0 == [i \in 1..width |-> PADDING_CHARACTER + 1]
        padded1 == [padded0 EXCEPT ![1] = BEGINNING_OF_WORD_CHARACTER + 1]
        filled == FillChars(padded1, 1, ids, width)
        idx == Min(filled.idx, width - 1)
    IN  [filled.padded EXCEPT ![idx + 1] = END_OF_WORD_CHARACTER + 1]

make_bos(width) ==
    make_padded_char_ids(<<BEGINNING_OF_SENTENCE_CHARACTER + 1>>, width)

make_eos(width) ==
    make_padded_char_ids(<<END_OF_SENTENCE_CHARACTER + 1>>, width)

(***************************************************************************)
(* Inputs of the codec: words over a small alphabet ('a', e-acute, the     *)
(* euro sign, a lone surrogate), and byte-derived character IDs.           *)
(***************************************************************************)
Alphabet == {97, 233, 8364, 55296}

CharIdValues == {1, 98, 256}

Widths == 1..MaxWidth

(***************************************************************************)
(* Results of a call: what it returned, or the exception it raised.        *)
(***************************************************************************)
Raise(exc) == [raised |-> exc, shape |-> <<>>, data |-> <<>>]

Return(shape, data) == [raised |-> "none", shape |-> shape, data |-> data]

(***************************************************************************)
(* torch.stack(tensors) of equally ranked tensors: it refuses an empty     *)
(* list and tensors of different sizes.  torch.LongTensor(rows) of a list  *)
(* of lists refuses rows of different lengths.                             *)
(***************************************************************************)
torch_stack_raises(sizes) ==
    \/ sizes = <<>>
    \/ \E i \in 1..Len(sizes) : sizes[i] # sizes[1]

torch_LongTensor_raises(rows) ==
    \E i \in 1..Len(rows) : Len(rows[i]) # Len(rows[1])

(***************************************************************************)
(* batch_to_char_ids.                                                      *)
(***************************************************************************)
BOS_TOKEN == <<60, 83, 62>>          \* '<S>'

EOS_TOKEN == <<60, 47, 83, 62>>      \* '</S>'

UNK_TOKEN == <<60, 85, 78, 75, 62>>  \* '<UNK>'

\* _WORD_TO_CHAR_IDS_EXCEPTION.get(word), else the padded IDs of the word.
token_char_ids(w, width) ==
    IF w = BOS_TOKEN THEN make_bos(width)
    ELSE IF w = EOS_TOKEN THEN make_eos(width)
    ELSE make_padded_char_ids(word_to_char_ids(w), width)

\* A mutant of zeros: the right padding is made of padding markers.
zeros_of_padding_markers(width) == [c \in 1..width |-> PADDING_CHARACTER + 1]

zeros(width) == [c \in 1..width |-> 0]

\* [x] * n is the empty list when n <= 0.
Repeat(x, n) == [k \in 1..Max(n, 0) |-> x]

char_row(words, timesteps, width) ==
    [t \in 1..Len(words) |-> token_char_ids(words[t], width)]
        \o Repeat(zeros(width), timesteps - Len(words))

\* A mutant of batch_to_char_ids: every row is cut to max_timesteps.
batch_to_char_ids_truncating(b, width) ==
    IF b = <<>> THEN Raise("IndexError")
    ELSE LET timesteps == Len(b[1])
             rows == [i \in 1..Len(b) |->
                         SubSeq(char_row(b[i], timesteps, width), 1, timesteps)]
         IN  IF timesteps = 0 THEN Raise("RuntimeError")
             ELSE Return(<<Len(b), timesteps, width>>, rows)

batch_to_char_ids(b, width) ==
    IF b = <<>> THEN Raise("IndexError")                  \* batch[0]
    ELSE LET timesteps == Len(b[1])
             rows == [i \in 1..Len(b) |-> char_row(b[i], timesteps, width)]
         IN  IF \E i \in 1..Len(rows) :                   \* torch.stack(row)
                    torch_stack_raises([t \in 1..Len(rows[i]) |-> <<width>>])
             THEN Raise("RuntimeError")
             ELSE IF torch_stack_raises(                  \* torch.stack(rows)
                        [i \in 1..Len(rows) |-> <<Len(rows[i]), width>>])
             THEN Raise("RuntimeError")
             ELSE Return(<<Len(b), timesteps, width>>, rows)

(***************************************************************************)
(* build_vocab2id and batch_to_word_ids.                                   *)
(***************************************************************************)
UNK_ID == 3

\* {word: word_id for word_id, word in enumerate(vocab, start=1)}: a later
\* occurrence of a word replaces an earlier one.
build_vocab2id(v) ==
    [w \in {v[i] : i \in 1..Len(v)} |->
        CHOOSE i \in 1..Len(v) :
            v[i] = w /\ \A j \in 1..Len(v) : v[j] = w => j <= i]

DictGet(d, k, default) == IF k \in DOMAIN d THEN d[k] ELSE default

word_row(words, timesteps, v2id) ==
    [t \in 1..Len(words) |-> DictGet(v2id, words[t], UNK_ID)]
        \o Repeat(0, timesteps - Len(words))

batch_to_word_ids(b, v2id) ==
    IF b = <<>> THEN Raise("IndexError")                  \* batch[0]
    ELSE LET timesteps == Len(b[1])
             rows == [i \in 1..Len(b) |-> word_row(b[i], timesteps, v2id)]
         IN  IF torch_LongTensor_raises(rows) THEN Raise("ValueError")
             ELSE Return(<<Len(b), timesteps>>, rows)

(***************************************************************************)
(* get_lengths_of_zero_padded_batch.  (x > 0).long() is Positive(x);       *)
(* .sum(dim=-1) is SumSeq over the innermost sequences.                    *)
(***************************************************************************)
\* A mutant of Positive: nonzero instead of > 0.
Nonzero(x) == IF x # 0 THEN 1 ELSE 0

Positive(x) == IF x > 0 THEN 1 ELSE 0

Positives(row) == [k \in 1..Len(row) |-> Positive(row[k])]

get_lengths_of_zero_padded_batch(t) ==
    IF Len(t.shape) = 2
    THEN [raised |-> "none",
          lengths |-> [b \in 1..Len(t.data) |-> SumSeq(Positives(t.data[b]))]]
    ELSE IF Len(t.shape) = 3
    THEN [raised |-> "none",
          lengths |-> [b \in 1..Len(t.data) |->
              SumSeq(Positives([k \in 1..Len(t.data[b]) |->
                                    SumSeq(Positives(t.data[b][k]))]))]]
    ELSE [raised |-> "ValueError", lengths |-> <<>>]

(***************************************************************************)
(* generate_mask_from_lengths.                                             *)
(***************************************************************************)
CumSum(row) == [t \in 1..Len(row) |-> SumSeq(SubSeq(row, 1, t))]

\* A mutant of generate_mask_from_lengths: > instead of >=.
generate_mask_from_lengths_strict(n, timesteps, lens) ==
    LET ones == [b \in 1..n |-> [t \in 1..timesteps |-> 1]]
        range_tensor == [b \in 1..n |-> CumSum(ones[b])]
    IN  [b \in 1..n |-> [t \in 1..timesteps |->
            IF lens[b] > range_tensor[b][t] THEN 1 ELSE 0]]

generate_mask_from_lengths(n, timesteps, lens) ==
    LET ones == [b \in 1..n |-> [t \in 1..timesteps |-> 1]]
        range_tensor == [b \in 1..n |-> CumSum(ones[b])]
    IN  [b \in 1..n |-> [t \in 1..timesteps |->
            IF lens[b] >= range_tensor[b][t] THEN 1 ELSE 0]]

(***************************************************************************)
(* sort_batch_by_length.  Tensor.sort(0, descending) returns the indices   *)
(* (0-based) that order the values; torch promises no order among equal    *)
(* values, so every index vector that orders them is a possible result.    *)
(***************************************************************************)
Permutations(n) ==
    {p \in [1..n -> 0..(n - 1)] : \A i, j \in 1..n : p[i] = p[j] => i = j}

torch_sort_indices(values, descending) ==
    {p \in Permutations(Len(values)) :
        \A i \in 1..(Len(values) - 1) :
            IF descending
            THEN At(values, p[i]) >= At(values, p[i + 1])
            ELSE At(values, p[i]) <= At(values, p[i + 1])}

\* batch.index_select(0, index)
index_select(t, index) ==
    [shape |-> t.shape, data |-> [i \in 1..Len(index) |-> At(t.data, index[i])]]

(***************************************************************************)
(* pack_inputs: pack_padded_sequence(inputs, lengths, batch_first=True)    *)
(* keeps, timestep by timestep, the rows of the sequences that are still   *)
(* running, and records how many there are (batch_sizes).  It refuses      *)
(* lengths that are not positive or not in decreasing order.               *)
(***************************************************************************)
pack_inputs(t) ==
    LET got == get_lengths_of_zero_padded_batch(t)
        lens == got.lengths
        steps == IF lens = <<>> THEN 0 ELSE lens[1]
        running(k) == {b \in 1..Len(lens) : lens[b] >= k}
    IN  IF got.raised # "none"
        THEN [raised |-> got.raised, data |-> <<>>, batch_sizes |-> <<>>]
        ELSE IF \/ lens = <<>>
                \/ \E b \in 1..Len(lens) : lens[b] <= 0
                \/ \E b \in 1..(Len(lens) - 1) : lens[b] < lens[b + 1]
        THEN [raised |-> "RuntimeError", data |-> <<>>, batch_sizes |-> <<>>]
        ELSE [raised |-> "none",
              data |-> Flatten([k \in 1..steps |->
                          [b \in 1..Cardinality(running(k)) |-> t.data[b][k]]]),
              batch_sizes |-> [k \in 1..steps |-> Cardinality(running(k))]]

(***************************************************************************)
(* The character encoder, a black box: it maps every row of character IDs  *)
(* to the representation of that row.                                      *)
(***************************************************************************)
OutputDim == 2

Repr(row) == [repr_of |-> row]

ZeroRepr == [repr_of |-> <<>>]

char_cnn(rows) == [i \in 1..Len(rows) |-> Repr(rows[i])]

(***************************************************************************)
(* unpack_outputs: pad_packed_sequence(inputs, batch_first=True) restores  *)
(* the right-padded tensor and the lengths; mask is None (here <<>>) when  *)
(* skip_mask is set.                                                       *)
(***************************************************************************)
unpack_outputs(packed, skip_mask) ==
    LET sizes == packed.batch_sizes
        n == IF sizes = <<>> THEN 0 ELSE sizes[1]
        offset(k) == SumSeq(SubSeq(sizes, 1, k - 1))
        lens == [b \in 1..n |-> Cardinality({k \in 1..Len(sizes) : sizes[k] >= b})]
        rows == [b \in 1..n |-> [k \in 1..Len(sizes) |->
                    IF b <= sizes[k] THEN packed.data[offset(k) + b] ELSE ZeroRepr]]
    IN  [tensor |-> [shape |-> <<n, Len(sizes), OutputDim>>, data |-> rows],
         mask |-> IF skip_mask THEN <<>>
                  ELSE generate_mask_from_lengths(n, Len(sizes), lens)]

\* Tensor.squeeze(0)
squeeze0(t) ==
    IF t.shape # <<>> /\ t.shape[1] = 1
    THEN [shape |-> Tail(t.shape), data |-> t.data[1]]
    ELSE t

(***************************************************************************)
(* load_vocab: every line is stripped and blank lines are skipped.         *)
(***************************************************************************)
Whitespace == {9, 10, 13, 32}

RECURSIVE LStrip(_)
LStrip(line) ==
    IF line # <<>> /\ Head(line) \in Whitespace THEN LStrip(Tail(line)) ELSE line

RECURSIVE RStrip(_)
RStrip(line) ==
    IF line # <<>> /\ line[Len(line)] \in Whitespace
    THEN RStrip(SubSeq(line, 1, Len(line) - 1))
    ELSE line

Strip(line) == RStrip(LStrip(line))

RECURSIVE load_vocab(_)
load_vocab(lines) ==
    IF lines = <<>> THEN <<>>
    ELSE LET w == Strip(Head(lines))
         IN  IF w # <<>> THEN <<w>> \o load_vocab(Tail(lines))
             ELSE load_vocab(Tail(lines))

(***************************************************************************)
(* cache_char_cnn_vocab, step 2: one chunk of the vocabulary.              *)
(***************************************************************************)
\* A mutant of vocab_chunk: the slice ends one entry early.
vocab_chunk_short(v, start, size) ==
    SubSeq(v, start + 1, Min(start + size, Len(v)) - 1)

\* vocab[batch_start:batch_start + batch_size]
vocab_chunk(v, start, size) == SubSeq(v, start + 1, Min(start + size, Len(v)))

\* The body of the chunk loop up to the append: the representations of one chunk.
chunk_reprs(chunk, width) ==
    LET ids == batch_to_char_ids(<<chunk>>, width)
        packed == pack_inputs([shape |-> ids.shape, data |-> ids.data])
        output_data == char_cnn(packed.data)
        unpacked == unpack_outputs(
                        [data |-> output_data, batch_sizes |-> packed.batch_sizes], TRUE)
    IN  IF ids.raised # "none" THEN [raised |-> ids.raised, rows |-> <<>>]
        ELSE IF packed.raised # "none" THEN [raised |-> packed.raised, rows |-> <<>>]
        ELSE [raised |-> "none", rows |-> squeeze0(unpacked.tensor).data]

(***************************************************************************)
(* get_bos_eos_token_repr: the rows are as wide as the widest filter + 3.  *)
(***************************************************************************)
Filters == <<<<1, 4>>, <<2, 8>>, <<3, 16>>>>

RECURSIVE MaxKernel(_)
MaxKernel(filters) ==
    IF Len(filters) = 1 THEN filters[1][1]
    ELSE Max(filters[1][1], MaxKernel(Tail(filters)))

get_bos_eos_token_repr(filters) ==
    LET width == MaxKernel(filters) + 3
        bos_eos == <<make_bos(width), make_eos(width)>>
        bos_eos_reprs == char_cnn(bos_eos)
    IN  <<bos_eos_reprs[1], bos_eos_reprs[2]>>

(***************************************************************************)
(* The values the variables of the other entry points keep.                *)
(***************************************************************************)
IdleCodec ==
    word = <<>> /\ char_ids = <<>> /\ max_word_length = 1 /\ padded = <<>>

IdleBatch ==
    batch = <<>> /\ max_characters_per_token = 1 /\ tensor = NoTensor

IdleLengths == inputs = NoTensor /\ lengths = <<>>

IdleMask == batch_size = 0 /\ max_timesteps = 0 /\ mask = <<>>

IdleSort ==
    sorted_batch = NoTensor /\ permutation_index = <<>> /\ restoration_index = <<>>

NoFile == [readable |-> FALSE, lines |-> <<>>]

NoOutput == [exists |-> FALSE, dataset |-> FALSE, shape |-> <<>>, rows |-> <<>>]

IdleCache ==
    /\ vocab_txt = NoFile /\ vocab = <<>> /\ cached = <<>> /\ batch_start = 0
    /\ embedding_weight = NoTensor /\ hdf5_out = NoOutput

(***************************************************************************)
(* The codec: word_to_char_ids and make_padded_char_ids.                   *)
(***************************************************************************)
InitCodec ==
    /\ raised = "none"
    /\ max_word_length \in Widths
    /\ padded = <<>>
    /\ \/ call = "word_to_char_ids" /\ pc = "start"
          /\ \E n \in 0..MaxWordChars : word \in [1..n -> Alphabet]
          /\ char_ids = <<>>
       \/ call = "make_padded_char_ids" /\ pc = "char_ids"
          /\ word = <<>>
          /\ \E n \in 0..MaxCharIds : char_ids \in [1..n -> CharIdValues]
    /\ IdleBatch /\ IdleLengths /\ IdleMask /\ IdleSort /\ IdleCache

WordToCharIds ==
    /\ pc = "start"
    /\ call = "word_to_char_ids"
    /\ char_ids' = word_to_char_ids(word)
    /\ pc' = "char_ids"
    /\ UNCHANGED <<call, raised, word, max_word_length, padded>>
    /\ UNCHANGED <<batchVars, lengthVars, maskVars, sortVars, cacheVars>>

MakePaddedCharIds ==
    /\ pc = "char_ids"
    /\ padded' = make_padded_char_ids(char_ids, max_word_length)
    /\ pc' = "padded"
    /\ UNCHANGED <<call, raised, word, char_ids, max_word_length>>
    /\ UNCHANGED <<batchVars, lengthVars, maskVars, sortVars, cacheVars>>

NextCodec == WordToCharIds \/ MakePaddedCharIds

SpecCodec == InitCodec /\ [][NextCodec]_vars

(***************************************************************************)
(* The batch assemblers, and length inference on what they return          *)
(* (pack_inputs starts with it).                                           *)
(***************************************************************************)
WordCycle == <<<<>>, BOS_TOKEN, <<233, 97>>, EOS_TOKEN>>

Sentence(start, n) ==
    [t \in 1..n |-> WordCycle[((start + t - 2) % Len(WordCycle)) + 1]]

Sentences == {Sentence(s, n) : s \in 1..Len(WordCycle), n \in 0..MaxSeq}

Vocabulary == <<BOS_TOKEN, EOS_TOKEN, UNK_TOKEN, <<233, 97>>>>

InitBatch ==
    /\ pc = "start"
    /\ raised = "none"
    /\ \E n \in 0..MaxBatch : batch \in [1..n -> Sentences]
    /\ tensor = NoTensor
    /\ \/ call = "batch_to_char_ids" /\ max_characters_per_token \in 1..MaxChars
       \/ call = "batch_to_word_ids" /\ max_characters_per_token = 1
    /\ IdleCodec /\ IdleLengths /\ IdleMask /\ IdleSort /\ IdleCache

BatchToCharIds ==
    /\ pc = "start"
    /\ call = "batch_to_char_ids"
    /\ LET r == batch_to_char_ids(batch, max_characters_per_token)
       IN  /\ raised' = r.raised
           /\ tensor' = [shape |-> r.shape, data |-> r.data]
    /\ pc' = "returned"
    /\ UNCHANGED <<call, batch, max_characters_per_token>>
    /\ UNCHANGED <<codecVars, lengthVars, maskVars, sortVars, cacheVars>>

BatchToWordIds ==
    /\ pc = "start"
    /\ call = "batch_to_word_ids"
    /\ LET r == batch_to_word_ids(batch, build_vocab2id(Vocabulary))
       IN  /\ raised' = r.raised
           /\ tensor' = [shape |-> r.shape, data |-> r.data]
    /\ pc' = "returned"
    /\ UNCHANGED <<call, batch, max_characters_per_token>>
    /\ UNCHANGED <<codecVars, lengthVars, maskVars, sortVars, cacheVars>>

InferLengths ==
    /\ pc = "returned"
    /\ raised = "none"
    /\ LET got == get_lengths_of_zero_padded_batch(tensor)
       IN  /\ raised' = got.raised
           /\ lengths' = got.lengths
    /\ inputs' = tensor
    /\ pc' = "lengths"
    /\ UNCHANGED <<call, batchVars>>
    /\ UNCHANGED <<codecVars, maskVars, sortVars, cacheVars>>

NextBatch == BatchToCharIds \/ BatchToWordIds \/ InferLengths

SpecBatch == InitBatch /\ [][NextBatch]_vars

(***************************************************************************)
(* Claims about the codec (checked under SpecCodec).                       *)
(***************************************************************************)
\* C5: for a word w of UTF-8 byte length L <= max_word_length - 2,
\* make_padded_char_ids(word_to_char_ids(w), max_word_length) holds 259 at
\* index 0, (byte j of w) + 1 at index j + 1, 260 at index L + 1 and 261 at
\* every other index.
C5_PaddedWordLayout ==
    (call = "word_to_char_ids" /\ pc = "padded"
        /\ Len(Utf8Encode(word)) <= max_word_length - 2)
    => LET bytes == Utf8Encode(word)
           L == Len(bytes)
       IN  /\ Len(padded) = max_word_length
           /\ At(padded, 0) = 259
           /\ \A j \in 0..(L - 1) : At(padded, j + 1) = At(bytes, j) + 1
           /\ At(padded, L + 1) = 260
           /\ \A i \in (L + 2)..(max_word_length - 1) : At(padded, i) = 261

\* The two bytes of e-acute, shifted, between the markers, then padding.
C5_Witness ==
    /\ call = "word_to_char_ids" /\ pc = "padded"
    /\ word = <<233>> /\ max_word_length = 5
    /\ padded = <<259, 196, 170, 260, 261>>

RowHasMarkers(row, width) ==
    /\ Len(row) = width
    /\ At(row, 0) = 259
    /\ Cardinality({i \in 1..Len(row) : row[i] = 260}) = 1
    /\ \A i, j \in 1..Len(row) : (row[i] = 260 /\ j > i) => row[j] = 261

\* C6 as stated: for every positive max_word_length and every sequence of
\* character IDs, the row has max_word_length slots, the beginning-of-word
\* marker at index 0, exactly one end-of-word marker, and only padding after it.
C6_EveryPositiveWidth ==
    pc = "padded" => RowHasMarkers(padded, max_word_length)

\* C6 as amended: the same for every max_word_length >= 2 (one slot cannot
\* hold both markers: the end-of-word marker replaces the other).
C6_WidthAtLeastTwo ==
    (pc = "padded" /\ max_word_length >= 2)
    => RowHasMarkers(padded, max_word_length)

\* An overlong sequence, cut so that the end-of-word marker takes the last slot.
C6_Witness ==
    /\ call = "make_padded_char_ids" /\ pc = "padded"
    /\ max_word_length = 3 /\ Len(char_ids) = 4
    /\ padded = <<259, At(char_ids, 0), 260>>

(***************************************************************************)
(* Claims about the batch assemblers (checked under SpecBatch).            *)
(***************************************************************************)
LaterLonger(b) == b # <<>> /\ \E i \in 2..Len(b) : Len(b[i]) > Len(b[1])

\* C7 as stated: when some later sequence is longer than batch[0], the call
\* raises no error and returns a tensor with len(batch[0]) timesteps.
C7_SilentlyReturns ==
    (pc = "returned" /\ LaterLonger(batch))
    => (raised = "none" /\ Len(tensor.shape) >= 2
            /\ tensor.shape[2] = Len(batch[1]))

\* C7 as amended: when some later sequence is longer than batch[0], the rows
\* built have different lengths and building the tensor raises an error
\* (torch.stack in batch_to_char_ids, torch.LongTensor in batch_to_word_ids):
\* no tensor is returned.
C7_RaggedRowsRaise ==
    (pc = "returned" /\ LaterLonger(batch))
    => /\ tensor = NoTensor
       /\ call = "batch_to_char_ids" => raised = "RuntimeError"
       /\ call = "batch_to_word_ids" => raised = "ValueError"

C7_Witness ==
    /\ pc = "returned" /\ call = "batch_to_char_ids"
    /\ Len(batch) = 2 /\ Len(batch[1]) = 1 /\ Len(batch[2]) = 2
    /\ raised = "RuntimeError"

SortedDescending(b) == \A i \in 1..(Len(b) - 1) : Len(b[i]) >= Len(b[i + 1])

InferredLengthsExact ==
    /\ lengths = [i \in 1..Len(batch) |-> Len(batch[i])]
    /\ \A i \in 1..Len(batch) : \A t \in 1..Len(tensor.data[i]) :
        \A c \in 1..max_characters_per_token :
            IF t <= Len(batch[i])
            THEN tensor.data[i][t][c] > 0
            ELSE tensor.data[i][t][c] = 0

\* C10 as stated: for every batch sorted by descending length and every
\* max_characters_per_token >= 1, batch_to_char_ids returns a tensor whose
\* inferred lengths are the sequence lengths, every token row being all > 0
\* and every padding row all zero.
C10_EverySortedBatch ==
    (call = "batch_to_char_ids" /\ SortedDescending(batch))
    => /\ pc = "returned" => raised = "none"
       /\ pc = "lengths" => InferredLengthsExact

\* C10 as amended: the same for every sorted batch that has a first sequence
\* and whose first sequence has at least one word (with no timestep at all
\* torch.stack is given an empty list and raises).
C10_SortedNonEmptyBatch ==
    (call = "batch_to_char_ids" /\ SortedDescending(batch)
        /\ batch # <<>> /\ batch[1] # <<>>)
    => /\ pc = "returned" => raised = "none"
       /\ pc = "lengths" => InferredLengthsExact

\* The empty word, '<S>' and '</S>' as tokens, one padding row, one character
\* per token.
C10_Witness ==
    /\ call = "batch_to_char_ids" /\ pc = "lengths"
    /\ batch = <<(<< <<>>, BOS_TOKEN >>), << EOS_TOKEN >> >>
    /\ max_characters_per_token = 1
    /\ lengths = <<2, 1>>
    /\ tensor.data[2][2] = <<0>>

(***************************************************************************)
(* Length inference on tensors of rank 1 to 4.  A timestep of a 3D tensor  *)
(* is all zero, all negative, or negative but for one positive value.      *)
(***************************************************************************)
Scalars == {-1, 0, 2}

TimestepKinds(n) ==
    { [c \in 1..n |-> 0],
      [c \in 1..n |-> -1],
      [c \in 1..n |-> IF c = n THEN 2 ELSE -5] }

LengthInputs(rank, b, t, n) ==
    IF rank = 1
    THEN {[shape |-> <<t>>, data |-> d] : d \in [1..t -> Scalars]}
    ELSE IF rank = 2
    THEN {[shape |-> <<b, t>>, data |-> d] : d \in [1..b -> [1..t -> Scalars]]}
    ELSE IF rank = 3
    THEN {[shape |-> <<b, t, n>>, data |-> d] :
                d \in [1..b -> [1..t -> TimestepKinds(n)]]}
    ELSE {[shape |-> <<1, 1, 1, 1>>, data |-> << << << <<x>> >> >> >>] : x \in Scalars}

InitLengths ==
    /\ pc = "start"
    /\ call = "get_lengths_of_zero_padded_batch"
    /\ raised = "none"
    /\ \/ inputs \in LengthInputs(1, 1, MaxSteps, 1)
       \/ \E b \in 1..MaxRows, t \in 0..MaxSteps : inputs \in LengthInputs(2, b, t, 1)
       \/ \E b \in 1..MaxRows, t \in 0..MaxSteps, n \in 1..MaxInner :
            inputs \in LengthInputs(3, b, t, n)
       \/ inputs \in LengthInputs(4, 1, 1, 1)
    /\ lengths = <<>>
    /\ IdleCodec /\ IdleBatch /\ IdleMask /\ IdleSort /\ IdleCache

GetLengths ==
    /\ pc = "start"
    /\ call = "get_lengths_of_zero_padded_batch"
    /\ LET got == get_lengths_of_zero_padded_batch(inputs)
       IN  /\ raised' = got.raised
           /\ lengths' = got.lengths
    /\ pc' = "returned"
    /\ UNCHANGED <<call, inputs>>
    /\ UNCHANGED <<codecVars, batchVars, maskVars, sortVars, cacheVars>>

NextLengths == GetLengths

SpecLengths == InitLengths /\ [][NextLengths]_vars

\* C8: for a 2D tensor the length of a row is the number of its positions
\* holding a value > 0; for a 3D tensor it is the number of its timesteps
\* holding at least one value > 0; for any other rank the call raises and
\* returns no lengths.
C8_LengthsCountPositives ==
    (call = "get_lengths_of_zero_padded_batch" /\ pc = "returned")
    => LET rank == Len(inputs.shape)
           d == inputs.data
       IN  /\ rank = 2 =>
                /\ raised = "none"
                /\ Len(lengths) = inputs.shape[1]
                /\ \A b \in 1..Len(d) :
                    lengths[b] = Cardinality({t \in 1..Len(d[b]) : d[b][t] > 0})
           /\ rank = 3 =>
                /\ raised = "none"
                /\ Len(lengths) = inputs.shape[1]
                /\ \A b \in 1..Len(d) :
                    lengths[b] = Cardinality({t \in 1..Len(d[b]) :
                                    \E c \in 1..Len(d[b][t]) : d[b][t][c] > 0})
           /\ rank \notin {2, 3} => (raised = "ValueError" /\ lengths = <<>>)

\* A 3D tensor: a row with one leading timestep holding a positive value among
\* negative ones, and an all-zero row.
C8_Witness ==
    /\ call = "get_lengths_of_zero_padded_batch" /\ pc = "returned"
    /\ inputs.shape = <<2, 2, 2>>
    /\ inputs.data = << << <<-5, 2>>, <<0, 0>> >>, << <<0, 0>>, <<0, 0>> >> >>
    /\ lengths = <<1, 0>>

(***************************************************************************)
(* generate_mask_from_lengths.                                             *)
(***************************************************************************)
InitMask ==
    /\ pc = "start"
    /\ call = "generate_mask_from_lengths"
    /\ raised = "none"
    /\ batch_size \in 0..MaskMaxBatch
    /\ max_timesteps \in 0..MaskMaxSteps
    /\ lengths \in [1..batch_size -> 0..max_timesteps]
    /\ mask = <<>>
    /\ inputs = NoTensor
    /\ IdleCodec /\ IdleBatch /\ IdleSort /\ IdleCache

GenerateMaskFromLengths ==
    /\ pc = "start"
    /\ call = "generate_mask_from_lengths"
    /\ mask' = generate_mask_from_lengths(batch_size, max_timesteps, lengths)
    /\ pc' = "returned"
    /\ UNCHANGED <<call, raised, batch_size, max_timesteps, lengthVars>>
    /\ UNCHANGED <<codecVars, batchVars, sortVars, cacheVars>>

NextMask == GenerateMaskFromLengths

SpecMask == InitMask /\ [][NextMask]_vars

\* C9: for lengths with 0 <= lengths[b] <= max_timesteps, the mask has
\* batch_size rows of max_timesteps entries and mask[b, t] = 1 if and only if
\* t < lengths[b] (0-based), else 0; lengths [3, 1] with 4 timesteps give
\* [[1, 1, 1, 0], [1, 0, 0, 0]].
C9_MaskIffBelowLength ==
    (call = "generate_mask_from_lengths" /\ pc = "returned")
    => /\ Len(mask) = batch_size
       /\ \A b \in 0..(batch_size - 1) :
            /\ Len(At(mask, b)) = max_timesteps
            /\ \A t \in 0..(max_timesteps - 1) :
                /\ At(At(mask, b), t) \in {0, 1}
                /\ At(At(mask, b), t) = 1 <=> t < At(lengths, b)
       /\ (batch_size = 2 /\ max_timesteps = 4 /\ lengths = <<3, 1>>)
            => mask = << <<1, 1, 1, 0>>, <<1, 0, 0, 0>> >>

C9_Witness ==
    /\ call = "generate_mask_from_lengths" /\ pc = "returned"
    /\ batch_size = 2 /\ max_timesteps = 4 /\ lengths = <<3, 1>>
    /\ mask = << <<1, 1, 1, 0>>, <<1, 0, 0, 0>> >>

(***************************************************************************)
(* sort_batch_by_length on zero-padded batches: every row is a run of one  *)
(* value > 0 followed by zeros; 2D, or 3D with one value per timestep.     *)
(***************************************************************************)
ZeroPaddedRows(t) ==
    {[k \in 1..t |-> IF k <= n THEN v ELSE 0] : n \in 0..t, v \in {1, 2}}

Lift(row) == [k \in 1..Len(row) |-> <<row[k]>>]

SortBatch(rank, rows) ==
    IF rank = 2
    THEN [shape |-> <<Len(rows), Len(rows[1])>>, data |-> rows]
    ELSE [shape |-> <<Len(rows), Len(rows[1]), 1>>,
          data |-> [i \in 1..Len(rows) |-> Lift(rows[i])]]

InitSort ==
    /\ pc = "start"
    /\ call = "sort_batch_by_length"
    /\ raised = "none"
    /\ \E b \in 1..SortMaxBatch, t \in 0..SortMaxSteps :
        \E rows \in [1..b -> ZeroPaddedRows(t)], rank \in {2, 3} :
            batch = SortBatch(rank, rows)
    /\ max_characters_per_token = 1 /\ tensor = NoTensor
    /\ IdleSort
    /\ IdleCodec /\ IdleLengths /\ IdleMask /\ IdleCache

\* A mutant of restoration_indices: the permutation is taken for its inverse.
restoration_indices_same(perm) == {perm}

\* permutation_index.sort(0, descending=False)
restoration_indices(perm) == torch_sort_indices(perm, FALSE)

\* A mutant of permutation_indices: the lengths are sorted in ascending order.
permutation_indices_ascending(lens) == torch_sort_indices(lens, FALSE)

\* lengths.sort(0, descending=True)
permutation_indices(lens) == torch_sort_indices(lens, TRUE)

SortBatchByLength ==
    /\ pc = "start"
    /\ call = "sort_batch_by_length"
    /\ LET got == get_lengths_of_zero_padded_batch(batch)
       IN  IF got.raised # "none"
           THEN /\ raised' = got.raised
                /\ UNCHANGED <<lengths, sortVars>>
           ELSE /\ raised' = "none"
                /\ lengths' = got.lengths
                /\ \E perm \in permutation_indices(got.lengths) :
                    \E rest \in restoration_indices(perm) :
                        /\ permutation_index' = perm
                        /\ sorted_batch' = index_select(batch, perm)
                        /\ restoration_index' = rest
    /\ pc' = "returned"
    /\ UNCHANGED <<call, batchVars, inputs>>
    /\ UNCHANGED <<codecVars, maskVars, cacheVars>>

NextSort == SortBatchByLength

SpecSort == InitSort /\ [][NextSort]_vars

\* C3: selecting the rows of sortedBatch by restorationIndex gives back the
\* batch: sortedBatch[restorationIndex[i]] = batch[i] for every i, and
\* restorationIndex is the inverse permutation of permutationIndex.
C3_RestorationRoundTrip ==
    (call = "sort_batch_by_length" /\ pc = "returned")
    => /\ raised = "none"
       /\ Len(restoration_index) = Len(batch.data)
       /\ index_select(sorted_batch, restoration_index) = batch
       /\ \A i \in 0..(Len(batch.data) - 1) :
            /\ At(sorted_batch.data, At(restoration_index, i)) = At(batch.data, i)
            /\ At(permutation_index, At(restoration_index, i)) = i
            /\ At(restoration_index, At(permutation_index, i)) = i

\* Three rows of lengths 1, 0, 2: the permutation is a cycle, not its own inverse.
C3_Witness ==
    /\ call = "sort_batch_by_length" /\ pc = "returned"
    /\ batch.data = << <<1, 0>>, <<0, 0>>, <<2, 2>> >>
    /\ permutation_index = <<2, 0, 1>>
    /\ restoration_index = <<1, 2, 0>>

RowLength(t, row) ==
    IF Len(t.shape) = 2
    THEN Cardinality({k \in 1..Len(row) : row[k] > 0})
    ELSE Cardinality({k \in 1..Len(row) : \E c \in 1..Len(row[k]) : row[k][c] > 0})

\* C4: permutationIndex is a permutation of 0..batchSize-1,
\* sortedBatch[i] = batch[permutationIndex[i]] for every i, and the lengths of
\* the rows of sortedBatch never increase, so the longest sequence is row 0.
C4_SortedByDescendingLength ==
    (call = "sort_batch_by_length" /\ pc = "returned")
    => LET n == Len(batch.data)
       IN  /\ raised = "none"
           /\ Len(permutation_index) = n
           /\ {permutation_index[i] : i \in 1..n} = 0..(n - 1)
           /\ sorted_batch.shape = batch.shape
           /\ Len(sorted_batch.data) = n
           /\ \A i \in 0..(n - 1) :
                At(sorted_batch.data, i) = At(batch.data, At(permutation_index, i))
           /\ \A i \in 0..(n - 2) :
                RowLength(sorted_batch, At(sorted_batch.data, i))
                    >= RowLength(sorted_batch, At(sorted_batch.data, i + 1))
           /\ \A i \in 0..(n - 1) :
                RowLength(sorted_batch, At(sorted_batch.data, 0))
                    >= RowLength(batch, At(batch.data, i))

\* Two rows of equal length after a shorter one; the longest comes first.
C4_Witness ==
    /\ call = "sort_batch_by_length" /\ pc = "returned"
    /\ batch.data = << <<1, 0>>, <<2, 2>>, <<1, 1>> >>
    /\ permutation_index = <<2, 1, 0>>
    /\ sorted_batch.data = << <<1, 1>>, <<2, 2>>, <<1, 0>> >>

(***************************************************************************)
(* cache_char_cnn_vocab.  The lines of the vocabulary file are '<S>', 'a', *)
(* ' b' and the blank line, each with its line break.  Every call outside  *)
(* the module (opening a file, restoring or running the encoder, writing   *)
(* the dataset) either returns or raises, and an exception nothing catches *)
(* ends the run.  Moving tensors to and from the accelerator changes no    *)
(* value and is left out.                                                  *)
(***************************************************************************)
VocabLines == {BOS_TOKEN \o <<10>>, <<97, 10>>, <<32, 98, 10>>, <<10>>}

InitCache ==
    /\ pc = "load_vocab"
    /\ call = "cache_char_cnn_vocab"
    /\ raised = "none"
    /\ \/ vocab_txt = NoFile
       \/ \E n \in 0..MaxVocabLines : \E l \in [1..n -> VocabLines] :
            vocab_txt = [readable |-> TRUE, lines |-> l]
    /\ batch_size \in 1..MaxChunk
    /\ max_characters_per_token \in {1, MaxChars}
    /\ vocab = <<>> /\ cached = <<>> /\ batch_start = 0
    /\ embedding_weight = NoTensor
    /\ hdf5_out = NoOutput
    /\ batch = <<>> /\ tensor = NoTensor
    /\ max_timesteps = 0 /\ mask = <<>>
    /\ IdleCodec /\ IdleLengths /\ IdleSort

Abort(exc) == pc' = "aborted" /\ raised' = exc

cacheFrame ==
    <<call, batch_size, batch, max_characters_per_token, tensor, max_timesteps, mask,
      codecVars, lengthVars, sortVars>>

\* 1. vocab = load_vocab(vocab_txt)
LoadVocab ==
    /\ pc = "load_vocab"
    /\ IF vocab_txt.readable
       THEN /\ vocab' = load_vocab(vocab_txt.lines)
            /\ pc' = "restore"
            /\ UNCHANGED raised
       ELSE /\ Abort("OSError")
            /\ UNCHANGED vocab
    /\ UNCHANGED <<vocab_txt, cached, batch_start, embedding_weight, hdf5_out>>
    /\ UNCHANGED cacheFrame

\* 2. ElmoCharacterEncoderRestorer(options_file, weight_file).restore(...)
RestoreCharCnn ==
    /\ pc = "restore"
    /\ \/ pc' = "encode" /\ UNCHANGED raised
       \/ Abort("OSError")
    /\ UNCHANGED cacheVars
    /\ UNCHANGED cacheFrame

\* One pass of the loop over range(0, len(vocab), batch_size).
EncodeChunk ==
    /\ pc = "encode"
    /\ batch_start < Len(vocab)
    /\ LET got == chunk_reprs(vocab_chunk(vocab, batch_start, batch_size),
                              max_characters_per_token)
       IN  IF got.raised # "none"
           THEN /\ Abort(got.raised)
                /\ UNCHANGED <<cached, batch_start>>
           ELSE \/ /\ cached' = Append(cached, got.rows)
                   /\ batch_start' = batch_start + batch_size
                   /\ UNCHANGED <<pc, raised>>
                \/ /\ Abort("EncoderError")           \* char_cnn raises
                   /\ UNCHANGED <<cached, batch_start>>
    /\ UNCHANGED <<vocab_txt, vocab, embedding_weight, hdf5_out>>
    /\ UNCHANGED cacheFrame

\* combined = torch.cat(cached, dim=0); embedding_weight = combined.numpy()
Combine ==
    /\ pc = "encode"
    /\ batch_start >= Len(vocab)
    /\ IF cached = <<>>
       THEN /\ Abort("RuntimeError")                  \* nothing to concatenate
            /\ UNCHANGED embedding_weight
       ELSE /\ embedding_weight' =
                    [shape |-> <<Len(Flatten(cached)), OutputDim>>,
                     data |-> Flatten(cached)]
            /\ pc' = "bos_eos"
            /\ UNCHANGED raised
    /\ UNCHANGED <<vocab_txt, vocab, cached, batch_start, hdf5_out>>
    /\ UNCHANGED cacheFrame

\* 3. get_bos_eos_token_repr, then embedding_weight[0] and [1] are replaced.
EncodeBosEos ==
    /\ pc = "bos_eos"
    /\ \/ /\ Abort("EncoderError")                    \* char_cnn raises
          /\ UNCHANGED embedding_weight
       \/ LET reprs == get_bos_eos_token_repr(Filters)
          IN  IF Len(embedding_weight.data) < 2
              THEN /\ Abort("IndexError")             \* embedding_weight[1]
                   /\ embedding_weight' =
                        [embedding_weight EXCEPT !.data[1] = reprs[1]]
              ELSE /\ embedding_weight' =
                        [embedding_weight EXCEPT !.data[1] = reprs[1],
                                                 !.data[2] = reprs[2]]
                   /\ pc' = "open"
                   /\ UNCHANGED raised
    /\ UNCHANGED <<vocab_txt, vocab, cached, batch_start, hdf5_out>>
    /\ UNCHANGED cacheFrame

\* 4. h5py.File(hdf5_out, 'w') creates the file, or empties the one there is.
OpenOutput ==
    /\ pc = "open"
    /\ \/ /\ hdf5_out' = [exists |-> TRUE, dataset |-> FALSE,
                          shape |-> <<>>, rows |-> <<>>]
          /\ pc' = "create_dataset"
          /\ UNCHANGED raised
       \/ /\ Abort("OSError")
          /\ UNCHANGED hdf5_out
    /\ UNCHANGED <<vocab_txt, vocab, cached, batch_start, embedding_weight>>
    /\ UNCHANGED cacheFrame

\* fout.create_dataset('embedding', embedding_weight.shape, dtype='float32')
CreateDataset ==
    /\ pc = "create_dataset"
    /\ \/ /\ hdf5_out' = [hdf5_out EXCEPT
                            !.dataset = TRUE,
                            !.shape = embedding_weight.shape,
                            !.rows = [i \in 1..embedding_weight.shape[1] |-> ZeroRepr]]
          /\ pc' = "write"
          /\ UNCHANGED raised
       \/ /\ Abort("OSError")
          /\ UNCHANGED hdf5_out
    /\ UNCHANGED <<vocab_txt, vocab, cached, batch_start, embedding_weight>>
    /\ UNCHANGED cacheFrame

\* dset[...] = embedding_weight; a write that fails has stored some of the rows.
WriteDataset ==
    /\ pc = "write"
    /\ \/ /\ hdf5_out' = [hdf5_out EXCEPT !.rows = embedding_weight.data]
          /\ pc' = "done"
          /\ UNCHANGED raised
       \/ /\ \E k \in 0..(Len(embedding_weight.data) - 1) :
                hdf5_out' = [hdf5_out EXCEPT !.rows =
                    [i \in 1..Len(embedding_weight.data) |->
                        IF i <= k THEN embedding_weight.data[i] ELSE ZeroRepr]]
          /\ Abort("OSError")
    /\ UNCHANGED <<vocab_txt, vocab, cached, batch_start, embedding_weight>>
    /\ UNCHANGED cacheFrame

NextCache ==
    \/ LoadVocab
    \/ RestoreCharCnn
    \/ EncodeChunk
    \/ Combine
    \/ EncodeBosEos
    \/ OpenOutput
    \/ CreateDataset
    \/ WriteDataset

SpecCache == InitCache /\ [][NextCache]_vars

(***************************************************************************)
(* Claims about the vocabulary cache (checked under SpecCache).            *)
(***************************************************************************)
\* C1: the persisted matrix has one row per vocabulary entry; row 0 is the
\* encoder's output for the beginning-of-sentence row, row 1 its output for
\* the end-of-sentence row, and every row i >= 2 its output for the padded
\* character-ID row of vocabulary entry i, whatever the chunk size.  With
\* n >= 2 entries only a failing file or encoder ends the run early.
C1_PersistedRowsFollowVocab ==
    /\ pc = "done"
        => LET n == Len(vocab)
               width == MaxKernel(Filters) + 3
               rows == hdf5_out.rows
           IN  /\ n >= 2
               /\ hdf5_out.exists /\ hdf5_out.dataset
               /\ Len(rows) = n
               /\ At(rows, 0) = Repr(make_bos(width))
               /\ At(rows, 1) = Repr(make_eos(width))
               /\ \A i \in 2..(n - 1) :
                    At(rows, i) =
                        Repr(token_char_ids(At(vocab, i), max_characters_per_token))
    /\ (pc = "aborted" /\ Len(vocab) >= 2) => raised \in {"OSError", "EncoderError"}

\* Four entries in chunks of three: a full chunk and a shorter last one, with
\* a blank line skipped and '<S>' met again as entry 3.
C1_Witness ==
    /\ pc = "done"
    /\ vocab = <<BOS_TOKEN, <<97>>, <<98>>, BOS_TOKEN>>
    /\ batch_size = 3
    /\ Len(cached) = 2 /\ Len(cached[2]) = 1
    /\ max_characters_per_token = MaxChars
    /\ At(hdf5_out.rows, 2) = Repr(<<259, 99, 260>>)
    /\ At(hdf5_out.rows, 3) = Repr(<<259, 257, 260>>)

\* C2: a run ends either completed, with the dataset 'embedding' holding the
\* full (vocabSize, outputDim) matrix, or aborted with no output file or
\* dataset left behind, whichever step fails.
C2_AllOrNothing ==
    /\ pc = "aborted" => (~hdf5_out.exists /\ ~hdf5_out.dataset)
    /\ pc = "done" =>
        /\ hdf5_out.exists /\ hdf5_out.dataset
        /\ hdf5_out.shape = <<Len(vocab), OutputDim>>
        /\ hdf5_out.rows = embedding_weight.data
====
